---- MODULE Spec2Model ----
(***************************************************************************)
(* A model of LeanBLAS's complex-BLAS reference tooling:                   *)
(*   validate_complex_blas.py       the validation harness and its parser  *)
(*   generate_complex_test_data.py  the deterministic fixture generator    *)
(*                                                                         *)
(* Numbers.  Arithmetic is exact, on rationals.  The harness compares       *)
(* float64 values with an absolute tolerance of 1e-10: a compared value is *)
(* modelled as an exact part `ex` (a complex rational, or the fraction of  *)
(* a real value or of a squared norm) plus a deviation (dre, dim) counted  *)
(* in units of 1e-11, so that DEFAULT_TOL is 10 units.  Two distinct exact *)
(* parts of the model differ by far more than the tolerance and every      *)
(* deviation is far below 1, so |a - b| <= 1e-10 holds exactly when the    *)
(* exact parts are equal and the modulus of the deviation difference is at *)
(* most 10 units.                                                          *)
(***************************************************************************)
EXTENDS Integers, Sequences, FiniteSets, TLC

VARIABLES
  pc,          \* validation: position in main / generate_test_summary
  tables,      \* validation: the test_cases list of every scenario
  results,     \* validation: scenario -> "NotRun" | "Passed" | "Failed"
  stdout,      \* validation: the lines written to the standard output stream
  pbuf,        \* validation: the lines main printed that sit in its buffer
  tty,         \* validation: TRUE if the standard output is a terminal (or
               \* PYTHONUNBUFFERED is set): every process writes each line
               \* as it prints it; FALSE for a pipe or a file
  unbuffered,  \* validation: TRUE if main was started as python -u: main
               \* writes each line as it prints it, its child does not
  script_in_cwd, \* validation: TRUE if generate_complex_test_data.py is a
               \* file of the directory main is run from
  all_passed,  \* validation: main's local all_passed (line 225)
  raised,      \* validation: the uncaught exception, "none" if there is none
  regen_rc,    \* validation: the generator subprocess's return code, -1 before
  exitcode,    \* validation: the process exit status, -1 while running
  ptext,       \* parser: the text handed to parse_complex
  ppc,         \* parser: "call" before the call, "done" after it
  pres,        \* parser: what the call gave: a value or a ValueError
  dx, dy,      \* dot products: the operands x and y
  dpc,         \* dot products: "call" before the computation, "done" after
  dres,        \* dot products: [zdotu, zdotc] of x and y
  gpc, gi,     \* generator: the method being run and its loop index
  prng,        \* generator: [mul, inc], the generator behind np.random
  rng,         \* generator: the process-wide state of np.random
  entropy,     \* generator: the state np.random had when the process began
  seeds,       \* generator: calls of np.random.seed in this run
  draws,       \* generator: values drawn from np.random in this run
  glist,       \* generator: the level's list of test cases being built
  test_data,   \* generator: self.test_data
  gerr,        \* generator: the uncaught exception of the run, if any
  gout,        \* generator: the lines the process printed, in order
  runs         \* generator: per finished run, its entropy and the file it saved

\* What a run finds and never changes.
env == <<tty, unbuffered, script_in_cwd>>
vvars == <<pc, tables, results, stdout, pbuf, env, all_passed, raised, regen_rc,
          exitcode>>
pvars == <<ptext, ppc, pres>>
dvars == <<dx, dy, dpc, dres>>
gvars == <<gpc, gi, prng, rng, entropy, seeds, draws, glist, test_data, gerr, gout,
          runs>>
vars == <<vvars, pvars, dvars, gvars>>

----------------------------------------------------------------------------
(* Bounds of the model *)

\* A perturbed expected value deviates by 0..MaxDevSteps steps per component.
MaxDevSteps == 2
\* One deviation step, in units of 1e-11.
DevStep == 8
\* The longest text handed to parse_complex.
MaxLen == 5
\* The longest operand vectors of the dot products.
MaxDotLen == 2
\* np.random is modelled as a linear congruential generator modulo Modulus,
\* state' = (mul * state + inc) % Modulus with mul in 1..MaxMul and inc in
\* 1..MaxInc, whose draws are the integers -MaxDraw..MaxDraw.
Modulus == 31
MaxMul == 4
MaxInc == 4
MaxDraw == 2
\* The states 0..MaxEntropy np.random may have when a process begins.
MaxEntropy == 1
\* Generation runs in a behaviour.
MaxRuns == 2

----------------------------------------------------------------------------
(* Exact arithmetic.  A real is a reduced fraction <<n, d>> with d > 0; a  *)
(* complex value is [re, im, den], the value (re + im i) / den, with        *)
(* den > 0 and no common factor of re, im and den.                          *)

Abs(n) == IF n < 0 THEN -n ELSE n

RECURSIVE GCD(_, _)
GCD(a, b) == IF b = 0 THEN Abs(a) ELSE GCD(b, Abs(a) % Abs(b))

\* The reduced fraction n/d (d # 0).
Frac(n, d) ==
  LET g == GCD(n, d)
      sg == IF d < 0 THEN -1 ELSE 1
  IN <<sg * (n \div g), sg * (d \div g)>>

FAdd(a, b) == Frac(a[1] * b[2] + b[1] * a[2], a[2] * b[2])

\* (re + im i) / den, reduced (den # 0)
QNorm(re, im, den) ==
  LET g == GCD(GCD(re, im), den)
      sg == IF den < 0 THEN -1 ELSE 1
  IN [re |-> sg * (re \div g), im |-> sg * (im \div g), den |-> sg * (den \div g)]

C(a, b) == [re |-> a, im |-> b, den |-> 1]
CAdd(a, b) == QNorm(a.re * b.den + b.re * a.den, a.im * b.den + b.im * a.den, a.den * b.den)
CSub(a, b) == QNorm(a.re * b.den - b.re * a.den, a.im * b.den - b.im * a.den, a.den * b.den)
CMul(a, b) == QNorm(a.re * b.re - a.im * b.im, a.re * b.im + a.im * b.re, a.den * b.den)
CConj(a) == [re |-> a.re, im |-> -a.im, den |-> a.den]
\* a / b for b # 0
CDiv(a, b) ==
  QNorm((a.re * b.re + a.im * b.im) * b.den, (a.im * b.re - a.re * b.im) * b.den,
        a.den * (b.re * b.re + b.im * b.im))
\* |a|^2
ModSq(a) == Frac(a.re * a.re + a.im * a.im, a.den * a.den)
\* z.real, z.imag
Real(a) == Frac(a.re, a.den)
Imag(a) == Frac(a.im, a.den)
FAbs(f) == <<Abs(f[1]), f[2]>>

\* A float64 value of the harness: exact part plus deviation in 1e-11 units.
Val(ex, dre, dim) == [ex |-> ex, dre |-> dre, dim |-> dim]

----------------------------------------------------------------------------
(* NumPy operations used by the harness and the generator *)

\* The sum of the complex numbers s[lo..hi], added pairwise (the arithmetic is
\* exact, so the order of the additions does not change the sum).
RECURSIVE CSum(_, _, _)
CSum(s, lo, hi) ==
  IF lo > hi THEN C(0, 0)
  ELSE IF lo = hi THEN s[lo]
  ELSE CAdd(CSum(s, lo, (lo + hi) \div 2), CSum(s, (lo + hi) \div 2 + 1, hi))

\* The same for fractions.
RECURSIVE FSum(_, _, _)
FSum(s, lo, hi) ==
  IF lo > hi THEN <<0, 1>>
  ELSE IF lo = hi THEN s[lo]
  ELSE FAdd(FSum(s, lo, (lo + hi) \div 2), FSum(s, (lo + hi) \div 2 + 1, hi))

DotSum(x, y, n) == CSum([i \in 1..n |-> CMul(x[i], y[i])], 1, n)

VdotSum(x, y, n) == CSum([i \in 1..n |-> CMul(CConj(x[i]), y[i])], 1, n)

\* np.dot(x, y) on 1-d arrays: sum of x_i * y_i; ValueError on unequal lengths.
np_dot(x, y) ==
  IF Len(x) # Len(y) THEN [ok |-> FALSE, v |-> C(0, 0)]
  ELSE [ok |-> TRUE, v |-> DotSum(x, y, Len(x))]

VdotSumSecond(x, y, n) == CSum([i \in 1..n |-> CMul(x[i], CConj(y[i]))], 1, n)

\* A conjugated dot product that conjugates its second operand.
np_vdot_second(x, y) ==
  IF Len(x) # Len(y) THEN [ok |-> FALSE, v |-> C(0, 0)]
  ELSE [ok |-> TRUE, v |-> VdotSumSecond(x, y, Len(x))]

\* np.vdot(x, y): sum of conj(x_i) * y_i; ValueError on unequal lengths.
np_vdot(x, y) ==
  IF Len(x) # Len(y) THEN [ok |-> FALSE, v |-> C(0, 0)]
  ELSE [ok |-> TRUE, v |-> VdotSum(x, y, Len(x))]

SumModSq(x, n) == FSum([i \in 1..n |-> ModSq(x[i])], 1, n)

\* np.linalg.norm(x) of a vector: sqrt(sum |x_i|^2).  The value is carried as
\* its square, the reduced fraction sum |x_i|^2.
np_linalg_norm(x) == SumModSq(x, Len(x))

SumAbsRe(x, n) == FSum([i \in 1..n |-> FAbs(Real(x[i]))], 1, n)

SumAbsIm(x, n) == FSum([i \in 1..n |-> FAbs(Imag(x[i]))], 1, n)

\* np.sum(np.abs(x.real)) + np.sum(np.abs(x.imag))
asum(x) == FAdd(SumAbsRe(x, Len(x)), SumAbsIm(x, Len(x)))

\* alpha * x on a vector, alpha * A on a matrix, x + y on vectors
VScale(alpha, x) == [i \in 1..Len(x) |-> CMul(alpha, x[i])]
MScale(alpha, A) == [i \in 1..Len(A) |-> VScale(alpha, A[i])]
VAdd(x, y) == [i \in 1..Len(x) |-> CAdd(x[i], y[i])]

\* A @ x: ValueError unless every row of A has the length of x.
np_matmul(A, x) ==
  IF \E i \in 1..Len(A) : Len(A[i]) # Len(x) THEN [ok |-> FALSE, v |-> <<>>]
  ELSE [ok |-> TRUE, v |-> [i \in 1..Len(A) |-> DotSum(A[i], x, Len(x))]]

----------------------------------------------------------------------------
(* The tolerance comparison *)

\* DEFAULT_TOL = 1e-10, in units of 1e-11
DEFAULT_TOL == 10

\* |result - expected|^2 of the deviations, in (1e-11)^2
DevSq(a, b) ==
  (a.dre - b.dre) * (a.dre - b.dre) + (a.dim - b.dim) * (a.dim - b.dim)

\* np.allclose(result, expected, rtol=0, atol=atol) on scalars:
\* |result - expected| <= atol + 0 * |expected|, with the complex modulus.
np_allclose(result, expected, atol) ==
  /\ result.ex = expected.ex
  /\ DevSq(result, expected) <= atol * atol

\* The loop's flag overwritten by the last case's outcome.
all_passed_last_wins(flag, passed) == passed

\* if not passed: all_passed = False
all_passed_update(flag, passed) == IF ~passed THEN FALSE ELSE flag

----------------------------------------------------------------------------
(* The test tables of the scenarios *)

Scenarios == <<"zdotu", "zdotc", "dznrm2", "dzasum", "level2">>
ScenarioSet == {Scenarios[i] : i \in 1..Len(Scenarios)}
Comparing == {"zdotu", "zdotc", "dznrm2", "dzasum"}

\* Exact expected values of the tables.
CVal(a, b) == Val(C(a, b), 0, 0)
RVal(n) == Val(Frac(n, 1), 0, 0)
NVal(sq) == Val(Frac(sq, 1), 0, 0)

\* test_cases of validate_zdotu: (x, y, expected)
zdotu_cases ==
  << [x |-> <<C(1, 0), C(2, 1)>>, y |-> <<C(3, 4), C(1, -2)>>,
      expected |-> CVal(7, 1)],
     [x |-> <<C(1, 0), C(2, 0), C(3, 0)>>, y |-> <<C(4, 0), C(5, 0), C(6, 0)>>,
      expected |-> CVal(32, 0)],
     [x |-> <<C(0, 1), C(0, 2)>>, y |-> <<C(0, 3), C(0, 4)>>,
      expected |-> CVal(-11, 0)] >>

\* test_cases of validate_zdotc: (x, y, expected)
zdotc_cases ==
  << [x |-> <<C(1, 0), C(0, 1)>>, y |-> <<C(1, 0), C(0, -1)>>,
      expected |-> CVal(0, 0)],
     [x |-> <<C(3, 4), C(1, -2)>>, y |-> <<C(2, -1), C(5, 3)>>,
      expected |-> CVal(1, 2)],
     [x |-> <<C(3, 4), C(0, 5)>>, y |-> <<C(3, 4), C(0, 5)>>,
      expected |-> CVal(50, 0)] >>

\* test_cases of validate_norms: (x, expected); the expected norms 5.0,
\* sqrt(14), sqrt(5), 1.0 are carried as their squares.
norms_cases ==
  << [x |-> <<C(3, 4), C(0, 0)>>, expected |-> NVal(25)],
     [x |-> <<C(1, 0), C(2, 0), C(3, 0)>>, expected |-> NVal(14)],
     [x |-> <<C(0, 1), C(0, 2)>>, expected |-> NVal(5)],
     [x |-> <<CDiv(C(3, 4), C(5, 0))>>, expected |-> NVal(1)] >>

\* test_cases of validate_asum: (x, expected)
asum_cases ==
  << [x |-> <<C(3, 4), C(-1, 0)>>, expected |-> RVal(8)],
     [x |-> <<C(1, 1), C(-2, 3), C(0, -4)>>, expected |-> RVal(11)],
     [x |-> <<C(0, 0), C(0, 0)>>, expected |-> RVal(0)] >>

\* The operands of validate_level2_operations: zgemv (A, x, y), zhemv (H, x)
level2_cases ==
  << [A |-> << <<C(1, 1), C(2, 0)>>, <<C(3, 0), C(4, 1)>> >>,
      x |-> <<C(1, 1), C(2, 0)>>, y |-> <<C(0, 0), C(0, 0)>>],
     [A |-> << <<C(2, 0), C(1, -1)>>, <<C(1, 1), C(3, 0)>> >>,
      x |-> <<C(1, 1), C(2, 0)>>, y |-> <<C(0, 0), C(0, 0)>>] >>

BaseTables ==
  [s \in ScenarioSet |->
     CASE s = "zdotu" -> zdotu_cases
       [] s = "zdotc" -> zdotc_cases
       [] s = "dznrm2" -> norms_cases
       [] s = "dzasum" -> asum_cases
       [] OTHER -> level2_cases]

\* The ways one test case may differ from the source's: its expected value
\* deviates ("dev"), an operand is one element short ("shape"), or an operand
\* element is changed ("val", Level 2 only, which has no expected values).
Steps == 0..MaxDevSteps
Perturbations ==
     [s : {"zdotu", "zdotc"}, k : 1..3, kind : {"dev"}, dre : Steps, dim : Steps]
  \cup [s : {"dznrm2"}, k : 1..4, kind : {"dev"}, dre : Steps \ {0}, dim : {0}]
  \cup [s : {"dzasum"}, k : 1..3, kind : {"dev"}, dre : Steps \ {0}, dim : {0}]
  \cup [s : {"zdotu", "zdotc"}, k : 1..3, kind : {"shape"}, dre : {0}, dim : {0}]
  \cup [s : {"level2"}, k : 1..2, kind : {"shape", "val"}, dre : {0}, dim : {0}]

\* The tables a run may start with: the source's, or the source's with one
\* test case edited.
EditedCases ==
  {{}} \cup {{p} : p \in {q \in Perturbations : q.kind = "dev" => q.dre + q.dim > 0}}

DropLast(v) == SubSeq(v, 1, Len(v) - 1)

PerturbCase(c, p) ==
  CASE p.kind = "dev" ->
         [c EXCEPT !.expected = Val(c.expected.ex, p.dre * DevStep, p.dim * DevStep)]
    [] p.kind = "shape" /\ p.s = "level2" -> [c EXCEPT !.x = DropLast(c.x)]
    [] p.kind = "shape" -> [c EXCEPT !.y = DropLast(c.y)]
    [] OTHER -> [c EXCEPT !.x[1] = CAdd(c.x[1], C(1, 0))]

TablesWith(P) ==
  [s \in ScenarioSet |->
     [i \in 1..Len(BaseTables[s]) |->
        IF \E p \in P : p.s = s /\ p.k = i
        THEN PerturbCase(BaseTables[s][i], CHOOSE p \in P : p.s = s /\ p.k = i)
        ELSE BaseTables[s][i]]]

----------------------------------------------------------------------------
(* The scenarios.  Each returns [raised, ret, out]: the exception that left *)
(* it ("none" if it returned), its return value, and the lines it printed.  *)

Line(kind, scen, test, data) ==
  [kind |-> kind, scen |-> scen, test |-> test, data |-> data]

\* The block printed for one test case: Expected, NumPy, Status.
TestLine(scen, i, expected, result, passed) ==
  Line("test", scen, i, [expected |-> expected, numpy |-> result, status |-> passed])

\* abs(result - expected) of two complex values
abs_delta(result, expected) ==
  [ex |-> CSub(result.ex, expected.ex), dsq |-> DevSq(result, expected)]

RECURSIVE zdotu_loop(_, _, _, _)
zdotu_loop(cases, i, flag, out) ==
  IF i > Len(cases) THEN [raised |-> "none", ret |-> flag, out |-> out]
  ELSE LET c == cases[i]
           r == np_dot(c.x, c.y)
       IN IF ~r.ok THEN [raised |-> "ValueError", ret |-> flag, out |-> out]
          ELSE LET result == Val(r.v, 0, 0)
                   passed == np_allclose(result, c.expected, DEFAULT_TOL)
                   block == Append(out, TestLine("zdotu", i, c.expected, result, passed))
               IN zdotu_loop(cases, i + 1, all_passed_update(flag, passed),
                    IF passed THEN block
                    ELSE Append(block, Line("error", "zdotu", i,
                                            abs_delta(result, c.expected))))

validate_zdotu(cases) ==
  zdotu_loop(cases, 1, TRUE, <<Line("header", "zdotu", 0, 0)>>)

RECURSIVE zdotc_loop(_, _, _, _)
zdotc_loop(cases, i, flag, out) ==
  IF i > Len(cases) THEN [raised |-> "none", ret |-> flag, out |-> out]
  ELSE LET c == cases[i]
           r == np_vdot(c.x, c.y)
       IN IF ~r.ok THEN [raised |-> "ValueError", ret |-> flag, out |-> out]
          ELSE LET result == Val(r.v, 0, 0)
                   passed == np_allclose(result, c.expected, DEFAULT_TOL)
               IN zdotc_loop(cases, i + 1, all_passed_update(flag, passed),
                    Append(out, TestLine("zdotc", i, c.expected, result, passed)))

validate_zdotc(cases) ==
  zdotc_loop(cases, 1, TRUE, <<Line("header", "zdotc", 0, 0)>>)

RECURSIVE norms_loop(_, _, _, _)
norms_loop(cases, i, flag, out) ==
  IF i > Len(cases) THEN [raised |-> "none", ret |-> flag, out |-> out]
  ELSE LET c == cases[i]
           result == Val(np_linalg_norm(c.x), 0, 0)
           passed == np_allclose(result, c.expected, DEFAULT_TOL)
       IN norms_loop(cases, i + 1, all_passed_update(flag, passed),
            Append(out, TestLine("dznrm2", i, c.expected, result, passed)))

validate_norms(cases) ==
  norms_loop(cases, 1, TRUE, <<Line("header", "dznrm2", 0, 0)>>)

RECURSIVE asum_loop(_, _, _, _)
asum_loop(cases, i, flag, out) ==
  IF i > Len(cases) THEN [raised |-> "none", ret |-> flag, out |-> out]
  ELSE LET c == cases[i]
           result == Val(asum(c.x), 0, 0)
           passed == np_allclose(result, c.expected, DEFAULT_TOL)
       IN asum_loop(cases, i + 1, all_passed_update(flag, passed),
            Append(out, TestLine("dzasum", i, c.expected, result, passed)))

validate_asum(cases) ==
  asum_loop(cases, 1, TRUE, <<Line("header", "dzasum", 0, 0)>>)

\* A Level 2 validation that compares its zgemv result with the expectation
\* it prints, [4+2i, 11+3i], and fails on a mismatch.
validate_level2_compared(cases) ==
  LET g == cases[1]
      gemv == np_matmul(MScale(C(1, 0), g.A), g.x)
      result == VAdd(gemv.v, VScale(C(0, 0), g.y))
  IN [raised |-> IF gemv.ok /\ Len(gemv.v) = Len(g.y) THEN "none" ELSE "ValueError",
      ret |-> gemv.ok /\ Len(gemv.v) = Len(g.y) /\ result = <<C(4, 2), C(11, 3)>>,
      out |-> <<Line("header", "level2", 0, 0)>>]

\* validate_level2_operations: computes and prints zgemv (alpha = 1, beta = 0)
\* and zhemv, compares nothing, returns True.
validate_level2_operations(cases) ==
  LET head == <<Line("header", "level2", 0, 0)>>
      g == cases[1]
      gemv == np_matmul(MScale(C(1, 0), g.A), g.x)
      h == cases[2]
      hemv == np_matmul(h.A, h.x)
  IN IF ~gemv.ok \/ Len(gemv.v) # Len(g.y)
     THEN [raised |-> "ValueError", ret |-> TRUE, out |-> head]
     ELSE LET out1 == Append(head, Line("value", "level2", 1,
                             VAdd(gemv.v, VScale(C(0, 0), g.y))))
          IN IF ~hemv.ok
             THEN [raised |-> "ValueError", ret |-> TRUE, out |-> out1]
             ELSE [raised |-> "none", ret |-> TRUE,
                   out |-> Append(out1, Line("value", "level2", 2, hemv.v))]

Status(passed) == IF passed THEN "Passed" ELSE "Failed"

\* all(results.values())
AllPassed(res) == \A s \in ScenarioSet : res[s] = "Passed"

----------------------------------------------------------------------------
(* main and generate_test_summary of validate_complex_blas.py *)

ValidateIdle ==
  /\ pc = "idle"
  /\ tables = <<>>
  /\ results = [s \in ScenarioSet |-> "NotRun"]
  /\ stdout = <<>>
  /\ pbuf = <<>>
  /\ tty = TRUE
  /\ unbuffered = FALSE
  /\ script_in_cwd = TRUE
  /\ all_passed = "unset"
  /\ raised = "none"
  /\ regen_rc = -1
  /\ exitcode = -1

\* print(...) of main's process: the lines reach the stream at once on a
\* terminal or under -u and wait in the buffer otherwise.
print(lines) ==
  IF tty \/ unbuffered THEN stdout' = stdout \o lines /\ pbuf' = pbuf
  ELSE pbuf' = pbuf \o lines /\ stdout' = stdout

\* The same as the last prints of the process: its end flushes the buffer.
print_and_flush(lines) ==
  /\ stdout' = stdout \o pbuf \o lines
  /\ pbuf' = <<>>

ValidateInit ==
  /\ pc = "main"
  /\ \E P \in EditedCases : tables = TablesWith(P)
  /\ results = [s \in ScenarioSet |-> "NotRun"]
  /\ stdout = <<>>
  /\ pbuf = <<>>
  /\ tty \in BOOLEAN
  /\ unbuffered \in BOOLEAN
  /\ script_in_cwd \in BOOLEAN
  /\ all_passed = "unset"
  /\ raised = "none"
  /\ regen_rc = -1
  /\ exitcode = -1

\* main prints its banner and calls generate_test_summary, which prints its own.
main_begin ==
  /\ pc = "main"
  /\ pc' = "zdotu"
  /\ print(<<Line("banner", "main", 0, 0), Line("banner", "summary", 0, 0)>>)
  /\ UNCHANGED <<tables, results, env, all_passed, raised, regen_rc, exitcode>>

\* One entry of the results dict literal: the scenario runs to its return or
\* to an exception, which nothing catches: the interpreter exits with status 1.
RunScenario(s, r, next) ==
  /\ pc = s
  /\ IF r.raised # "none"
     THEN /\ print_and_flush(r.out)
          /\ raised' = r.raised
          /\ exitcode' = 1
          /\ pc' = "exited"
          /\ UNCHANGED results
     ELSE /\ print(r.out)
          /\ results' = [results EXCEPT ![s] = Status(r.ret)]
          /\ pc' = next
          /\ UNCHANGED <<raised, exitcode>>
  /\ UNCHANGED <<tables, env, all_passed, regen_rc>>

run_zdotu == RunScenario("zdotu", validate_zdotu(tables["zdotu"]), "zdotc")
run_zdotc == RunScenario("zdotc", validate_zdotc(tables["zdotc"]), "dznrm2")
run_norms == RunScenario("dznrm2", validate_norms(tables["dznrm2"]), "dzasum")
run_asum == RunScenario("dzasum", validate_asum(tables["dzasum"]), "level2")
run_level2 ==
  RunScenario("level2", validate_level2_operations(tables["level2"]), "report")

\* The rest of generate_test_summary: the RESULTS lines, the verdict, the return.
summary_report ==
  /\ pc = "report"
  /\ print(<<Line("results", "summary", 0, results),
             Line("verdict", "summary", 0, AllPassed(results))>>)
  /\ all_passed' = AllPassed(results)
  /\ pc' = "regen"
  /\ UNCHANGED <<tables, results, env, raised, regen_rc, exitcode>>

\* An exit status that ignores the verdict.
ExitStatusAlwaysZero(flag) == 0

\* 0 if all_passed else 1
ExitStatus(flag) == IF flag THEN 0 ELSE 1

\* sys.exit(0 if all_passed else 1)
main_exit ==
  /\ pc = "exit"
  /\ print_and_flush(<<Line("complete", "main", 0, 0)>>)
  /\ exitcode' = ExitStatus(all_passed)
  /\ pc' = "exited"
  /\ UNCHANGED <<tables, results, env, all_passed, raised, regen_rc>>

----------------------------------------------------------------------------
(* parse_complex of validate_complex_blas.py.  A text is a sequence of      *)
(* characters of Alphabet; on this alphabet Python's float() accepts        *)
(* exactly [sign] (digits [. [digits]] | . digits).  A parsed number is     *)
(* [m, k]: the signed integer m of its digits with k digits after the point *)
(* (no digit of the alphabet is 0, so the pair is unique).                  *)

Digits == {"1", "2"}
Signs == {"+", "-"}
Glyphs == {"i"}
Alphabet == Digits \cup Signs \cup Glyphs \cup {".", " "}
DigitValue(c) == IF c = "1" THEN 1 ELSE 2

\* The first index >= i of t whose character is not in S (Len(t) + 1 if none).
RECURSIVE SkipWhile(_, _, _)
SkipWhile(t, i, S) ==
  IF i <= Len(t) /\ t[i] \in S THEN SkipWhile(t, i + 1, S) ELSE i

\* The last index <= i of t whose character is not a blank (0 if none).
RECURSIVE SkipBack(_, _)
SkipBack(t, i) == IF i >= 1 /\ t[i] = " " THEN SkipBack(t, i - 1) ELSE i

\* s.strip()
strip(t) == SubSeq(t, SkipWhile(t, 1, {" "}), SkipBack(t, Len(t)))

\* \d+\.?\d* from index i, greedy: the index after the match, 0 if none.
ScanNumber(t, i) ==
  LET a == SkipWhile(t, i, Digits)
  IN IF a = i THEN 0
     ELSE IF a <= Len(t) /\ t[a] = "." THEN SkipWhile(t, a + 1, Digits) ELSE a

\* The integer written by the digits of t[i..j-1], its point skipped.
RECURSIVE Mantissa(_, _, _)
Mantissa(t, i, j) ==
  IF j <= i THEN 0
  ELSE IF t[j - 1] = "." THEN Mantissa(t, i, j - 1)
  ELSE 10 * Mantissa(t, i, j - 1) + DigitValue(t[j - 1])

\* The number of digits of t[i..j-1] after its point.
RECURSIVE FracDigits(_, _, _)
FracDigits(t, i, j) ==
  IF j <= i \/ t[j - 1] = "." THEN 0
  ELSE IF \E q \in i..(j - 1) : t[q] = "." THEN 1 + FracDigits(t, i, j - 1)
  ELSE 0

Num(m, k) == [m |-> m, k |-> k]

\* float(t): [ok, v]; ValueError (ok = FALSE) unless all of t is a number.
float(t) ==
  LET p == IF Len(t) >= 1 /\ t[1] \in Signs THEN 2 ELSE 1
      a == SkipWhile(t, p, Digits)
      b == IF a <= Len(t) /\ t[a] = "." THEN SkipWhile(t, a + 1, Digits) ELSE a
      sign == IF Len(t) >= 1 /\ t[1] = "-" THEN -1 ELSE 1
  IN IF b = Len(t) + 1 /\ (a > p \/ b > a + 1)
     THEN [ok |-> TRUE, v |-> Num(sign * Mantissa(t, p, b), FracDigits(t, p, b))]
     ELSE [ok |-> FALSE, v |-> Num(0, 0)]

\* re.match(r'([+-]?\d+\.?\d*)\s*([+-])\s*(\d+\.?\d*)\s*[i...]', s): the
\* match starts at the first character and may end before the last one.
\* [ok, g1, sign, g3]: the groups of the match.
re_match(s) ==
  LET none == [ok |-> FALSE, g1 |-> <<>>, sign |-> "+", g3 |-> <<>>]
      p == IF Len(s) >= 1 /\ s[1] \in Signs THEN 2 ELSE 1
      e1 == ScanNumber(s, p)
  IN IF e1 = 0 THEN none
     ELSE LET q == SkipWhile(s, e1, {" "})
          IN IF ~(q <= Len(s) /\ s[q] \in Signs) THEN none
             ELSE LET b3 == SkipWhile(s, q + 1, {" "})
                      e3 == ScanNumber(s, b3)
                  IN IF e3 = 0 THEN none
                     ELSE LET g == SkipWhile(s, e3, {" "})
                          IN IF g <= Len(s) /\ s[g] \in Glyphs
                             THEN [ok |-> TRUE, g1 |-> SubSeq(s, 1, e1 - 1),
                                   sign |-> s[q], g3 |-> SubSeq(s, b3, e3 - 1)]
                             ELSE none

\* parse_complex(s): [ok, re, im]; ok = FALSE is the ValueError it raises.
parse_complex(text) ==
  LET s == strip(text)
      match == re_match(s)
  IN IF match.ok
     THEN LET real == float(match.g1).v
              sign == IF match.sign = "-" THEN -1 ELSE 1
              g3 == float(match.g3).v
          IN [ok |-> TRUE, re |-> real, im |-> Num(sign * g3.m, g3.k)]
     ELSE LET f == float(s)
          IN IF f.ok THEN [ok |-> TRUE, re |-> f.v, im |-> Num(0, 0)]
             ELSE [ok |-> FALSE, re |-> Num(0, 0), im |-> Num(0, 0)]

Texts == UNION {[1..n -> Alphabet] : n \in 0..MaxLen}

ParseIdle ==
  /\ ptext = <<>>
  /\ ppc = "idle"
  /\ pres = [ok |-> FALSE, re |-> Num(0, 0), im |-> Num(0, 0)]

ParseInit ==
  /\ ptext \in Texts
  /\ ppc = "call"
  /\ pres = [ok |-> FALSE, re |-> Num(0, 0), im |-> Num(0, 0)]

call_parse_complex ==
  /\ ppc = "call"
  /\ pres' = parse_complex(ptext)
  /\ ppc' = "done"
  /\ UNCHANGED ptext

----------------------------------------------------------------------------
(* The two dot products of generate_level1_tests on the same operands *)

\* The real and imaginary parts of the operands' elements.
Coords == {-1, 0, 1}
Elements == {C(a, b) : a \in Coords, b \in Coords}
Vectors(n) == [1..n -> Elements]

DotIdle ==
  /\ dx = <<>>
  /\ dy = <<>>
  /\ dpc = "idle"
  /\ dres = [zdotu |-> C(0, 0), zdotc |-> C(0, 0)]

DotInit ==
  /\ \E n \in 1..MaxDotLen : dx \in Vectors(n) /\ dy \in Vectors(n)
  /\ dpc = "call"
  /\ dres = [zdotu |-> C(0, 0), zdotc |-> C(0, 0)]

\* zdotu_result = np.dot(x, y); zdotc_result = np.vdot(x, y)
compute_dots ==
  /\ dpc = "call"
  /\ dres' = [zdotu |-> np_dot(dx, dy).v, zdotc |-> np_vdot(dx, dy).v]
  /\ dpc' = "done"
  /\ UNCHANGED <<dx, dy>>

----------------------------------------------------------------------------
(* generate_complex_test_data.py: matrix operations *)

Rows(A) == Len(A)
Cols(A) == Len(A[1])

\* A.conj().T
ConjT(A) == [j \in 1..Cols(A) |-> [i \in 1..Rows(A) |-> CConj(A[i][j])]]
\* A.T
Transpose(A) == [j \in 1..Cols(A) |-> [i \in 1..Rows(A) |-> A[i][j]]]
MAdd(A, B) == [i \in 1..Rows(A) |-> VAdd(A[i], B[i])]
\* A / k for an integer k
MDiv(A, k) == [i \in 1..Rows(A) |-> [j \in 1..Cols(A) |-> CDiv(A[i][j], C(k, 0))]]

\* A Hermitian part taken with the plain transpose.
HermitianPartNoConj(A) == MDiv(MAdd(A, Transpose(A)), 2)

\* (A + A.conj().T) / 2
HermitianPart(A) == MDiv(MAdd(A, ConjT(A)), 2)

\* The lower triangle instead of the upper one.
np_tril(A) ==
  [i \in 1..Rows(A) |-> [j \in 1..Cols(A) |-> IF j <= i THEN A[i][j] ELSE C(0, 0)]]

\* np.triu(A)
np_triu(A) ==
  [i \in 1..Rows(A) |-> [j \in 1..Cols(A) |-> IF j >= i THEN A[i][j] ELSE C(0, 0)]]

MatVec(A, x) == np_matmul(A, x).v
\* A @ B
MatMul(A, B) ==
  LET Bt == Transpose(B)
  IN [i \in 1..Rows(A) |-> [j \in 1..Cols(B) |-> DotSum(A[i], Bt[j], Cols(A))]]
\* np.outer(x, y)
np_outer(x, y) == [i \in 1..Len(x) |-> [j \in 1..Len(y) |-> CMul(x[i], y[j])]]
VConj(x) == [i \in 1..Len(x) |-> CConj(x[i])]

\* sum over j in (i+1)..n of U[i][j] * x[j]
RECURSIVE RowTail(_, _, _, _)
RowTail(U, x, i, j) ==
  IF j <= i THEN C(0, 0) ELSE CAdd(RowTail(U, x, i, j - 1), CMul(U[i][j], x[j]))

\* Back substitution from row i up to row 1; x holds the rows below i.
RECURSIVE BackSubstitute(_, _, _, _)
BackSubstitute(U, b, i, x) ==
  IF i = 0 THEN x
  ELSE BackSubstitute(U, b, i - 1,
         [x EXCEPT ![i] = CDiv(CSub(b[i], RowTail(U, x, i, Len(b))), U[i][i])])

IsZero(z) == z.re = 0 /\ z.im = 0

\* A solve that does not look at the pivots: a zero pivot gives a zero entry.
np_linalg_solve_unchecked(U, b) ==
  [ok |-> TRUE,
   x |-> BackSubstitute([i \in 1..Rows(U) |->
                           [j \in 1..Cols(U) |->
                              IF i = j /\ IsZero(U[i][j]) THEN C(1, 0) ELSE U[i][j]]],
                        [i \in 1..Len(b) |-> IF IsZero(U[i][i]) THEN C(0, 0) ELSE b[i]],
                        Len(b), [i \in 1..Len(b) |-> C(0, 0)])]

\* np.linalg.solve(U, b) for the upper-triangular U it is called with: the
\* LU factorisation's pivots are the diagonal entries of U; an exactly zero
\* pivot raises LinAlgError("Singular matrix") (ok = FALSE).
np_linalg_solve(U, b) ==
  IF \E i \in 1..Rows(U) : IsZero(U[i][i])
  THEN [ok |-> FALSE, x |-> <<>>]
  ELSE [ok |-> TRUE, x |-> BackSubstitute(U, b, Len(b), [i \in 1..Len(b) |-> C(0, 0)])]

----------------------------------------------------------------------------
(* The JSON forms *)

complex_to_dict(z) == [real |-> Real(z), imag |-> Imag(z)]
array_to_list(arr) == [i \in 1..Len(arr) |-> complex_to_dict(arr[i])]
matrix_to_list(mat) == [i \in 1..Rows(mat) |-> array_to_list(mat[i])]

----------------------------------------------------------------------------
(* np.random *)

\* np.random.seed(42)
SEED == 42

\* np.random is a deterministic generator: a state, a step on it, and the
\* number a state gives.  The model keeps that and no more of it: a family of
\* small generators stands for it, and what is proved of the generation runs
\* is proved for every generator of the family.
Generators == [mul : 1..MaxMul, inc : 1..MaxInc]

NextState(p, st) == (p.mul * st + p.inc) % Modulus

\* The number drawn in state st: an integer of -MaxDraw..MaxDraw for randn's
\* float.  Unlike a Gaussian draw it can be exactly zero, so some generators
\* of the family draw a matrix with a zero on the diagonal.  NumPy's stream
\* after seed(42) draws none: such generators show what line 193 does with a
\* singular U, in the generation runs explored on their own (SpecGen), and
\* are not used for the child of a validation run (ChildGenerators).
Output(st) == (st % (2 * MaxDraw + 1)) - MaxDraw

\* n applications of NextState as one map st -> (mul * st + inc) % Modulus:
\* n steps are n \div 2 steps followed by the rest.
RECURSIVE Steps_n(_, _)
Steps_n(p, n) ==
  IF n = 0 THEN [mul |-> 1, inc |-> 0]
  ELSE IF n = 1 THEN [mul |-> p.mul % Modulus, inc |-> p.inc % Modulus]
  ELSE LET f == Steps_n(p, n \div 2)
           g == Steps_n(p, n - n \div 2)
       IN [mul |-> (g.mul * f.mul) % Modulus,
           inc |-> (g.mul * f.inc + g.inc) % Modulus]

\* The state after n draws.
Advance(p, st, n) == NextState(Steps_n(p, n), st)

\* The n values drawn from state st on.
DrawSeq(p, st, n) == [i \in 1..n |-> Output(Advance(p, st, i))]

\* np.random.randn(n) + 1j * np.random.randn(n): the real parts are drawn first
randn_vector(p, st, n) ==
  LET d == DrawSeq(p, st, 2 * n)
  IN [i \in 1..n |-> C(d[i], d[n + i])]

\* np.random.randn(m, n) + 1j * np.random.randn(m, n), row-major
randn_matrix(p, st, m, n) ==
  LET d == DrawSeq(p, st, 2 * m * n)
  IN [i \in 1..m |-> [j \in 1..n |-> C(d[(i - 1) * n + j], d[m * n + (i - 1) * n + j])]]

\* A constructor that leaves np.random as it found it.
np_random_seed_skipped(st, seed) == st

\* np.random.seed(seed): the state becomes a function of the seed alone
np_random_seed(st, seed) == seed % Modulus

----------------------------------------------------------------------------
(* ComplexBLASTestGenerator *)

Level1Sizes == <<2, 3, 5, 10>>
Level2Sizes == << <<2, 2>>, <<3, 3>>, <<4, 3>>, <<3, 4>> >>
Level3Sizes == << <<2, 3, 4>>, <<3, 3, 3>>, <<4, 2, 3>> >>

\* complex(re2 / 2, im2 / 2)
Halves(re2, im2) == QNorm(re2, im2, 2)

\* One iteration of generate_level1_tests' loop, for vectors x and y of size n.
Level1Case(n, x, y) ==
  LET alpha == Halves(5, -3)
  IN [size |-> n,
      x |-> array_to_list(x),
      y |-> array_to_list(y),
      alpha |-> complex_to_dict(alpha),
      results |->
        [zdotu |-> complex_to_dict(np_dot(x, y).v),
         zdotc |-> complex_to_dict(np_vdot(x, y).v),
         dznrm2 |-> np_linalg_norm(x),
         dzasum |-> asum(x),
         zscal |-> array_to_list(VScale(alpha, x)),
         zaxpy |-> array_to_list(VAdd(VScale(alpha, x), y)),
         zcopy |-> array_to_list(x),
         zswap |-> [x_after |-> array_to_list(y), y_after |-> array_to_list(x)]]]

\* generate_special_cases_level1
special_cases_level1 ==
  LET xr == <<C(1, 0), C(2, 0), C(3, 0)>>
      yr == <<C(4, 0), C(5, 0), C(6, 0)>>
      xi == <<C(0, 1), C(0, 2), C(0, 3)>>
      yi == <<C(0, 4), C(0, 5), C(0, 6)>>
      xu == <<CDiv(C(3, 4), C(5, 0))>>
  IN << [name |-> "pure_real", size |-> 3,
         x |-> array_to_list(xr), y |-> array_to_list(yr),
         results |-> [zdotu |-> complex_to_dict(np_dot(xr, yr).v),
                      zdotc |-> complex_to_dict(np_vdot(xr, yr).v),
                      dznrm2 |-> np_linalg_norm(xr)]],
        [name |-> "pure_imaginary", size |-> 3,
         x |-> array_to_list(xi), y |-> array_to_list(yi),
         results |-> [zdotu |-> complex_to_dict(np_dot(xi, yi).v),
                      zdotc |-> complex_to_dict(np_vdot(xi, yi).v),
                      dznrm2 |-> np_linalg_norm(xi)]],
        [name |-> "unit_norm", size |-> 1,
         x |-> array_to_list(xu),
         results |-> [dznrm2 |-> np_linalg_norm(xu)]] >>

\* alpha * A @ x + beta * y
Gemv(alpha, A, x, beta, y) == VAdd(MatVec(MScale(alpha, A), x), VScale(beta, y))

\* One iteration of generate_level2_tests' loop for a matrix that is not square.
Level2Case(m, n, A, x, y) ==
  LET alpha == Halves(3, 1)
      beta == Halves(1, -1)
  IN [m |-> m, n |-> n,
      A |-> matrix_to_list(A),
      x |-> array_to_list(x),
      y |-> array_to_list(y),
      alpha |-> complex_to_dict(alpha),
      beta |-> complex_to_dict(beta),
      results |-> [zgemv |-> array_to_list(Gemv(alpha, A, x, beta, y))]]

\* The same for a square matrix, given the solution of the triangular solve.
Level2SquareCase(n, A, x, y, b, ztrsv_result) ==
  LET alpha == Halves(3, 1)
      beta == Halves(1, -1)
      H == HermitianPart(A)
      U == np_triu(A)
  IN [m |-> n, n |-> n,
      A |-> matrix_to_list(A),
      x |-> array_to_list(x),
      y |-> array_to_list(y),
      alpha |-> complex_to_dict(alpha),
      beta |-> complex_to_dict(beta),
      H |-> matrix_to_list(H),
      U |-> matrix_to_list(U),
      b |-> array_to_list(b),
      results |-> [zgemv |-> array_to_list(Gemv(alpha, A, x, beta, y)),
                   zhemv |-> array_to_list(Gemv(alpha, H, x, beta, y)),
                   ztrmv |-> array_to_list(MatVec(U, x)),
                   ztrsv |-> array_to_list(ztrsv_result)]]

\* generate_rank1_update_tests
Rank1Case(A, x, y) ==
  LET alpha == C(2, 1)
      H == HermitianPart(A)
  IN [name |-> "rank1_updates", m |-> 3, n |-> 3,
      A |-> matrix_to_list(A),
      H |-> matrix_to_list(H),
      x |-> array_to_list(x),
      y |-> array_to_list(y),
      alpha |-> complex_to_dict(alpha),
      alpha_real |-> Real(alpha),
      results |->
        [zgerc |-> matrix_to_list(MAdd(A, MScale(alpha, np_outer(x, VConj(y))))),
         zgeru |-> matrix_to_list(MAdd(A, MScale(alpha, np_outer(x, y)))),
         zher |-> matrix_to_list(MAdd(H, MScale(C(2, 0), np_outer(x, VConj(x)))))]]

\* alpha * A @ B + beta * C
Gemm(alpha, A, B, beta, Cm) == MAdd(MatMul(MScale(alpha, A), B), MScale(beta, Cm))

\* One iteration of generate_level3_tests' loop.
Level3Case(m, k, n, A, B, Cm) ==
  LET alpha == C(2, -1)
      beta == Halves(2, 1)
      base == [m |-> m, k |-> k, n |-> n,
               A |-> matrix_to_list(A),
               B |-> matrix_to_list(B),
               C |-> matrix_to_list(Cm),
               alpha |-> complex_to_dict(alpha),
               beta |-> complex_to_dict(beta)]
  IN IF m = n /\ n = k
     THEN LET H == HermitianPart(A)
              C_herm == HermitianPart(Cm)
          IN base @@
             [H |-> matrix_to_list(H),
              C_herm |-> matrix_to_list(C_herm),
              results |->
                [zgemm |-> matrix_to_list(Gemm(alpha, A, B, beta, Cm)),
                 zhemm |-> matrix_to_list(Gemm(alpha, H, B, beta, Cm)),
                 zherk |-> matrix_to_list(
                             MAdd(MatMul(MScale(C(2, 0), A), ConjT(A)),
                                  MScale(C(1, 0), C_herm)))]]
     ELSE base @@
          [results |-> [zgemm |-> matrix_to_list(Gemm(alpha, A, B, beta, Cm))]]

NoFile == <<>>
NoError == [kind |-> "none", U |-> <<>>]

GenIdle ==
  /\ gpc = "idle"
  /\ gi = 0
  /\ prng = [mul |-> 1, inc |-> 1]
  /\ rng = 0
  /\ entropy = 0
  /\ seeds = 0
  /\ draws = 0
  /\ glist = <<>>
  /\ test_data = <<>>
  /\ gerr = NoError
  /\ gout = <<>>
  /\ runs = <<>>

\* A process that is about to construct the generator.
GenInit ==
  /\ gpc = "start"
  /\ gi = 0
  /\ prng \in Generators
  /\ rng \in 0..MaxEntropy
  /\ entropy = rng
  /\ seeds = 0
  /\ draws = 0
  /\ glist = <<>>
  /\ test_data = <<>>
  /\ gerr = NoError
  /\ gout = <<>>
  /\ runs = <<>>

\* ComplexBLASTestGenerator.__init__, then the call of generate_level1_tests
generator_init ==
  /\ gpc = "start"
  /\ test_data' = <<>>
  /\ rng' = np_random_seed(rng, SEED)
  /\ seeds' = seeds + 1
  /\ gpc' = "level1"
  /\ gi' = 1
  /\ glist' = <<>>
  /\ gout' = Append(gout, Line("generating", "generator", 1, 0))
  /\ UNCHANGED <<prng, entropy, draws, gerr, runs>>

level1_case ==
  /\ gpc = "level1"
  /\ gi <= Len(Level1Sizes)
  /\ LET n == Level1Sizes[gi]
         x == randn_vector(prng, rng, n)
         y == randn_vector(prng, Advance(prng, rng, 2 * n), n)
     IN /\ glist' = Append(glist, Level1Case(n, x, y))
        /\ rng' = Advance(prng, rng, 4 * n)
        /\ draws' = draws + 4 * n
  /\ gi' = gi + 1
  /\ UNCHANGED <<gpc, prng, entropy, seeds, test_data, gerr, gout, runs>>

\* The special cases are appended and the list stored; generate_level2_tests begins.
level1_store ==
  /\ gpc = "level1"
  /\ gi > Len(Level1Sizes)
  /\ test_data' = test_data @@ ("level1" :> (glist \o special_cases_level1))
  /\ gpc' = "level2"
  /\ gi' = 1
  /\ glist' = <<>>
  /\ gout' = Append(gout, Line("generating", "generator", 2, 0))
  /\ UNCHANGED <<prng, rng, entropy, seeds, draws, gerr, runs>>

\* One iteration of generate_level2_tests' loop.  A LinAlgError of the solve
\* is caught nowhere: the run ends without a file.
level2_case ==
  /\ gpc = "level2"
  /\ gi <= Len(Level2Sizes)
  /\ LET m == Level2Sizes[gi][1]
         n == Level2Sizes[gi][2]
         A == randn_matrix(prng, rng, m, n)
         s1 == Advance(prng, rng, 2 * m * n)
         x == randn_vector(prng, s1, n)
         s2 == Advance(prng, s1, 2 * n)
         y == randn_vector(prng, s2, m)
         s3 == Advance(prng, s2, 2 * m)
         b == randn_vector(prng, s3, n)
         sol == np_linalg_solve(np_triu(A), b)
     IN IF m # n
        THEN /\ glist' = Append(glist, Level2Case(m, n, A, x, y))
             /\ rng' = s3
             /\ draws' = draws + 2 * m * n + 2 * n + 2 * m
             /\ gi' = gi + 1
             /\ UNCHANGED <<gpc, gerr, runs>>
        ELSE /\ rng' = Advance(prng, s3, 2 * n)
             /\ draws' = draws + 2 * m * n + 2 * n + 2 * m + 2 * n
             /\ IF sol.ok
                THEN /\ glist' = Append(glist, Level2SquareCase(n, A, x, y, b, sol.x))
                     /\ gi' = gi + 1
                     /\ UNCHANGED <<gpc, gerr, runs>>
                ELSE /\ gpc' = "error"
                     /\ gerr' = [kind |-> "LinAlgError", U |-> np_triu(A)]
                     /\ runs' = Append(runs, [entropy |-> entropy, saved |-> FALSE,
                                              file |-> NoFile])
                     /\ UNCHANGED <<glist, gi>>
  /\ UNCHANGED <<prng, entropy, seeds, test_data, gout>>

\* The rank-1 update case is appended and the list stored; generate_level3_tests begins.
level2_store ==
  /\ gpc = "level2"
  /\ gi > Len(Level2Sizes)
  /\ LET A == randn_matrix(prng, rng, 3, 3)
         s1 == Advance(prng, rng, 18)
         x == randn_vector(prng, s1, 3)
         y == randn_vector(prng, Advance(prng, s1, 6), 3)
     IN /\ test_data' = test_data @@ ("level2" :> Append(glist, Rank1Case(A, x, y)))
        /\ rng' = Advance(prng, s1, 12)
        /\ draws' = draws + 30
  /\ gpc' = "level3"
  /\ gi' = 1
  /\ glist' = <<>>
  /\ gout' = Append(gout, Line("generating", "generator", 3, 0))
  /\ UNCHANGED <<prng, entropy, seeds, gerr, runs>>

level3_case ==
  /\ gpc = "level3"
  /\ gi <= Len(Level3Sizes)
  /\ LET m == Level3Sizes[gi][1]
         k == Level3Sizes[gi][2]
         n == Level3Sizes[gi][3]
         A == randn_matrix(prng, rng, m, k)
         s1 == Advance(prng, rng, 2 * m * k)
         B == randn_matrix(prng, s1, k, n)
         s2 == Advance(prng, s1, 2 * k * n)
         Cm == randn_matrix(prng, s2, m, n)
     IN /\ glist' = Append(glist, Level3Case(m, k, n, A, B, Cm))
        /\ rng' = Advance(prng, s2, 2 * m * n)
        /\ draws' = draws + 2 * m * k + 2 * k * n + 2 * m * n
  /\ gi' = gi + 1
  /\ UNCHANGED <<gpc, prng, entropy, seeds, test_data, gerr, gout, runs>>

level3_store ==
  /\ gpc = "level3"
  /\ gi > Len(Level3Sizes)
  /\ test_data' = test_data @@ ("level3" :> glist)
  /\ gpc' = "save"
  /\ glist' = <<>>
  /\ UNCHANGED <<gi, prng, rng, entropy, seeds, draws, gerr, gout, runs>>

\* save_test_data: json.dump(self.test_data, f), then the "saved" line
save_test_data ==
  /\ gpc = "save"
  /\ runs' = Append(runs, [entropy |-> entropy, saved |-> TRUE, file |-> test_data])
  /\ gout' = Append(gout, Line("saved", "generator", 0, 0))
  /\ gpc' = "example"
  /\ UNCHANGED <<gi, prng, rng, entropy, seeds, draws, glist, test_data, gerr>>

\* The rest of the generator's main: the zdotu example, five printed lines.
print_example ==
  /\ gpc = "example"
  /\ LET x == <<C(1, 0), C(2, 1)>>
         y == <<C(3, 4), C(1, -2)>>
     IN gout' = gout \o <<Line("example", "generator", 1, 0),
                          Line("example", "generator", 2, x),
                          Line("example", "generator", 3, y),
                          Line("example", "generator", 4, np_dot(x, y).v),
                          Line("example", "generator", 5, C(7, 1))>>
  /\ gpc' = "done"
  /\ UNCHANGED <<gi, prng, rng, entropy, seeds, draws, glist, test_data, gerr, runs>>

\* Another process runs the generator: np.random starts from fresh entropy.
new_process ==
  /\ gpc \in {"done", "error"}
  /\ Len(runs) < MaxRuns
  /\ \E e \in 0..MaxEntropy : rng' = e /\ entropy' = e
  /\ gpc' = "start"
  /\ gi' = 0
  /\ seeds' = 0
  /\ draws' = 0
  /\ glist' = <<>>
  /\ test_data' = <<>>
  /\ gerr' = NoError
  /\ gout' = <<>>
  /\ UNCHANGED <<prng, runs>>

----------------------------------------------------------------------------
(* main of validate_complex_blas.py, continued: the regeneration child *)

\* The stream np.random gives after seed(SEED) is regular: the diagonals of
\* the two square matrices generate_level2_tests draws from it (after the 80
\* draws of generate_level1_tests, and 20 draws apart) have no zero entry, so
\* np.linalg.solve does not fail on them.
Regular(p) ==
  LET s1 == Advance(p, np_random_seed(0, SEED), 80)
      A1 == randn_matrix(p, s1, 2, 2)
      A2 == randn_matrix(p, Advance(p, s1, 20), 3, 3)
  IN /\ \A i \in 1..2 : ~IsZero(A1[i][i])
     /\ \A i \in 1..3 : ~IsZero(A2[i][i])

\* The generators behind np.random a validation run's child is explored with:
\* NumPy's stream after seed(42) is regular, so only regular ones, and the
\* validation (which reads none of the child's numbers) needs only a few.
ChildGenerators == {p \in Generators : p.inc = 1 /\ p.mul <= 2 /\ Regular(p)}

\* No generator process yet; main will start one.
ChildNotStarted ==
  /\ gpc = "idle"
  /\ gi = 0
  /\ prng \in ChildGenerators
  /\ rng = 0
  /\ entropy = 0
  /\ seeds = 0
  /\ draws = 0
  /\ glist = <<>>
  /\ test_data = <<>>
  /\ gerr = NoError
  /\ gout = <<>>
  /\ runs = <<>>

\* The banner, then subprocess.run starts generate_complex_test_data.py in a
\* process of its own (np.random from fresh entropy) and waits for it.  The
\* script is named by a relative path: where the current directory has no
\* such file the interpreter started ends at once, with return code 2.
regenerate ==
  /\ pc = "regen"
  /\ print(<<Line("banner", "regen", 0, 0)>>)
  /\ pc' = "wait"
  /\ gpc' = IF script_in_cwd THEN "start" ELSE "missing"
  /\ \E e \in 0..MaxEntropy : rng' = e /\ entropy' = e
  /\ gi' = 0
  /\ seeds' = 0
  /\ draws' = 0
  /\ glist' = <<>>
  /\ test_data' = <<>>
  /\ gerr' = NoError
  /\ gout' = <<>>
  /\ UNCHANGED <<tables, results, env, all_passed, raised, regen_rc, exitcode, prng,
               runs>>

\* A step of the child while main waits.  The child prints to the stream it
\* inherited, through a buffer of its own.  It is started without -u, so it
\* writes each line as it prints it only on a terminal, and otherwise all of
\* them when it ends, whatever main's own buffering is.
ChildStep ==
  /\ pc = "wait"
  /\ stdout' = IF tty THEN stdout \o SubSeq(gout', Len(gout) + 1, Len(gout'))
               ELSE IF gpc' \in {"done", "error"} THEN stdout \o gout'
               ELSE stdout
  /\ UNCHANGED <<pc, tables, results, pbuf, env, all_passed, raised, regen_rc,
                 exitcode>>

\* subprocess.run(..., check=True) returns when the child has ended: return
\* code 0 after a whole run, 1 after an uncaught exception, 2 if the script
\* was not found; a non-zero return code raises CalledProcessError, which
\* nothing catches.
regenerate_wait ==
  /\ pc = "wait"
  /\ gpc \in {"done", "error", "missing"}
  /\ regen_rc' = IF gpc = "done" THEN 0 ELSE IF gpc = "error" THEN 1 ELSE 2
  /\ IF gpc = "done"
     THEN /\ pc' = "exit"
          /\ UNCHANGED <<raised, exitcode, stdout, pbuf>>
     ELSE /\ raised' = "CalledProcessError"
          /\ exitcode' = 1
          /\ pc' = "exited"
          /\ print_and_flush(<<>>)
  /\ UNCHANGED <<tables, results, env, all_passed>>

----------------------------------------------------------------------------
(* The specifications *)

ValidateOnly == UNCHANGED <<pvars, dvars, gvars>>
ParseOnly == UNCHANGED <<vvars, dvars, gvars>>
DotOnly == UNCHANGED <<vvars, pvars, gvars>>
GenOnly == UNCHANGED <<vvars, pvars, dvars>>
ParentAndChild == UNCHANGED <<pvars, dvars>>

\* A run of the validation entry point.
Init == ValidateInit /\ ParseIdle /\ DotIdle /\ ChildNotStarted
Next ==
  \/ main_begin /\ ValidateOnly
  \/ run_zdotu /\ ValidateOnly
  \/ run_zdotc /\ ValidateOnly
  \/ run_norms /\ ValidateOnly
  \/ run_asum /\ ValidateOnly
  \/ run_level2 /\ ValidateOnly
  \/ summary_report /\ ValidateOnly
  \/ regenerate /\ ParentAndChild
  \/ generator_init /\ ChildStep /\ ParentAndChild
  \/ level1_case /\ ChildStep /\ ParentAndChild
  \/ level1_store /\ ChildStep /\ ParentAndChild
  \/ level2_case /\ ChildStep /\ ParentAndChild
  \/ level2_store /\ ChildStep /\ ParentAndChild
  \/ level3_case /\ ChildStep /\ ParentAndChild
  \/ level3_store /\ ChildStep /\ ParentAndChild
  \/ save_test_data /\ ChildStep /\ ParentAndChild
  \/ print_example /\ ChildStep /\ ParentAndChild
  \/ regenerate_wait /\ ValidateOnly
  \/ main_exit /\ ValidateOnly
Spec == Init /\ [][Next]_vars

\* One call of parse_complex on a text.
InitParse == ParseInit /\ ValidateIdle /\ DotIdle /\ GenIdle
NextParse == call_parse_complex /\ ParseOnly
SpecParse == InitParse /\ [][NextParse]_vars

\* The unconjugated and the conjugated dot product of one pair of operands.
InitDot == DotInit /\ ValidateIdle /\ ParseIdle /\ GenIdle
NextDot == compute_dots /\ DotOnly
SpecDot == InitDot /\ [][NextDot]_vars

\* Generation runs, each in a process of its own.
InitGen == GenInit /\ ValidateIdle /\ ParseIdle /\ DotIdle
NextGen ==
  \/ generator_init /\ GenOnly
  \/ level1_case /\ GenOnly
  \/ level1_store /\ GenOnly
  \/ level2_case /\ GenOnly
  \/ level2_store /\ GenOnly
  \/ level3_case /\ GenOnly
  \/ level3_store /\ GenOnly
  \/ save_test_data /\ GenOnly
  \/ print_example /\ GenOnly
  \/ new_process /\ GenOnly
SpecGen == InitGen /\ [][NextGen]_vars

----------------------------------------------------------------------------
(* Properties of the validation harness *)

\* Every line printed so far, in the stream or still in main's buffer.
printed == stdout \o pbuf

EveryScenarioPassed == \A s \in ScenarioSet : results[s] = "Passed"

TestLines(s) ==
  {i \in 1..Len(printed) : printed[i].kind = "test" /\ printed[i].scen = s}

\* C1 as stated: the run ends with exit code 0 if every scenario reached
\* Passed and with exit code 1 otherwise, whatever the fixture regeneration
\* between the summary and the exit did.
C1_ExitZeroIffAllPassed ==
  pc = "exited" => (exitcode = IF EveryScenarioPassed THEN 0 ELSE 1)

\* C1 amended: the run ends with exit code 0 exactly when every scenario
\* reached Passed and the regeneration subprocess returned 0, and with exit
\* code 1 in every other case; it never ends 0 with a scenario not Passed.
\* The subprocess returns 0 exactly when the generator script was found in
\* the current directory and saved its file; where the script is not found
\* it returns 2 (if main got as far as starting it) and no generation run
\* takes place.
C1_ExitZeroIffAllPassedAndRegenerated ==
  pc = "exited" =>
    /\ exitcode \in {0, 1}
    /\ exitcode = 0 <=> (EveryScenarioPassed /\ regen_rc = 0)
    /\ regen_rc = 0 <=> (script_in_cwd /\ Len(runs) = 1 /\ runs[1].saved)
    /\ ~script_in_cwd => (regen_rc \in {-1, 2} /\ runs = <<>> /\ gout = <<>>)

\* C1 witness: every scenario Passed, main was run from a directory without
\* the generator script, the subprocess returned 2 and the exit is 1.
C1_Witness ==
  /\ pc = "exited" /\ EveryScenarioPassed /\ ~script_in_cwd
  /\ regen_rc = 2 /\ raised = "CalledProcessError" /\ exitcode = 1

\* C2: an error raised inside one scenario does not abort the suite: every
\* scenario still runs and gets a result, and the report is printed.
C2_ErrorDoesNotAbortSuite ==
  (pc = "exited" /\ raised = "ValueError") =>
    /\ \A s \in ScenarioSet :
         \E i \in 1..Len(printed) : printed[i].kind = "header" /\ printed[i].scen = s
    /\ \E i \in 1..Len(printed) : printed[i].kind = "results"

\* C3: a comparing scenario that ends Failed has printed the magnitude of
\* the deviation |actual - expected| of a failing case.
C3_FailedReportsDeviation ==
  \A s \in Comparing :
    results[s] = "Failed" =>
      \E i \in 1..Len(printed) : printed[i].kind = "error" /\ printed[i].scen = s

\* |numpy - expected| <= 1e-10 for the values printed in a test block
WithinTolerance(d) ==
  /\ d.numpy.ex = d.expected.ex
  /\ (d.numpy.dre - d.expected.dre) * (d.numpy.dre - d.expected.dre)
       + (d.numpy.dim - d.expected.dim) * (d.numpy.dim - d.expected.dim)
     <= DEFAULT_TOL * DEFAULT_TOL

\* C4: a comparing scenario that returned has compared every case of its
\* table and is Passed exactly when every compared value is within 1e-10 of
\* the expected one in modulus; one case beyond it makes the result Failed
\* whatever the later cases give.
C4_PassedIffAllWithinTolerance ==
  \A s \in Comparing :
    results[s] # "NotRun" =>
      /\ Cardinality(TestLines(s)) = Len(tables[s])
      /\ results[s] = "Passed" <=>
           \A i \in TestLines(s) : WithinTolerance(printed[i].data)

\* C4 witness: a scenario Failed on a case beyond the tolerance that was
\* followed by a case within it.
C4_Witness ==
  \E s \in Comparing :
    /\ results[s] = "Failed"
    /\ \E i, j \in TestLines(s) :
         /\ i < j
         /\ ~WithinTolerance(printed[i].data)
         /\ WithinTolerance(printed[j].data)

----------------------------------------------------------------------------
(* Properties of parse_complex *)

\* digits [. [digits]]
IsUnsignedNumber(t) ==
  /\ Len(t) >= 1
  /\ t[1] \in Digits
  /\ \A i \in 1..Len(t) : t[i] \in Digits \cup {"."}
  /\ Cardinality({i \in 1..Len(t) : t[i] = "."}) <= 1

IsSignedNumber(t) ==
  \/ IsUnsignedNumber(t)
  \/ Len(t) >= 2 /\ t[1] \in Signs /\ IsUnsignedNumber(Tail(t))

IsBlank(t) == \A i \in 1..Len(t) : t[i] = " "

\* The ways to read all of s as "<real> <sign> <imag>i": <<a, b, c, d>> with
\* <real> = s[1..a], the sign at b, <imag> = s[c..d], the glyph at the end.
AffineReadings(s) ==
  {r \in (1..Len(s)) \X (1..Len(s)) \X (1..Len(s)) \X (1..Len(s)) :
     /\ r[1] < r[2] /\ r[2] < r[3] /\ r[3] <= r[4] /\ r[4] < Len(s)
     /\ IsSignedNumber(SubSeq(s, 1, r[1]))
     /\ IsBlank(SubSeq(s, r[1] + 1, r[2] - 1))
     /\ s[r[2]] \in Signs
     /\ IsBlank(SubSeq(s, r[2] + 1, r[3] - 1))
     /\ IsUnsignedNumber(SubSeq(s, r[3], r[4]))
     /\ IsBlank(SubSeq(s, r[4] + 1, Len(s) - 1))
     /\ s[Len(s)] \in Glyphs}

\* [sign] (digits [. [digits]] | . digits): a bare real number
IsRealNumber(t) ==
  LET u == IF Len(t) >= 1 /\ t[1] \in Signs THEN Tail(t) ELSE t
  IN /\ \A i \in 1..Len(u) : u[i] \in Digits \cup {"."}
     /\ Cardinality({i \in 1..Len(u) : u[i] = "."}) <= 1
     /\ \E i \in 1..Len(u) : u[i] \in Digits

\* The value a number token writes, negated when neg.
TokenValue(t, neg) ==
  LET p == IF t[1] \in Signs THEN 2 ELSE 1
      m == Mantissa(t, p, Len(t) + 1)
      minus == (t[1] = "-") # neg
  IN Num(IF minus THEN -m ELSE m, FracDigits(t, p, Len(t) + 1))

\* C5: parse_complex decodes "<real> + <imag>i" to real + imag i,
\* "<real> - <imag>i" to real - imag i and a bare real number to that real
\* with imaginary part 0, and raises a parse error for every text that is
\* not, in its entirety, one of these forms.
C5_ParsesExactlyTheForms ==
  ppc = "done" =>
    LET s == strip(ptext)
    IN /\ \A r \in AffineReadings(s) :
            /\ pres.ok
            /\ pres.re = TokenValue(SubSeq(s, 1, r[1]), FALSE)
            /\ pres.im = TokenValue(SubSeq(s, r[3], r[4]), s[r[2]] = "-")
       /\ IsRealNumber(s) =>
            /\ pres.ok
            /\ pres.re = TokenValue(s, FALSE)
            /\ pres.im = Num(0, 0)
       /\ (AffineReadings(s) = {} /\ ~IsRealNumber(s)) => ~pres.ok

----------------------------------------------------------------------------
(* Properties of the dot products *)

\* sum of Im(x_i) * y_i
RECURSIVE ImWeightedSum(_, _, _)
ImWeightedSum(x, y, n) ==
  IF n = 0 THEN C(0, 0)
  ELSE CAdd(ImWeightedSum(x, y, n - 1), CMul(C(x[n].im, 0), y[n]))

HasImaginaryPart(x) == \E i \in 1..Len(x) : x[i].im # 0

\* C7 as stated: the conjugated and the unconjugated dot product of x and y
\* differ whenever an element of x or of y has a nonzero imaginary part.
C7_DotsDifferWhenAnyImaginary ==
  (dpc = "done" /\ (HasImaginaryPart(dx) \/ HasImaginaryPart(dy)))
    => dres.zdotc # dres.zdotu

\* C7 amended: zdotc(x, y) - zdotu(x, y) = -2i * sum of Im(x_i) * y_i, so
\* the two differ exactly when that sum is not zero; with every element of
\* x real they are equal whatever the imaginary parts of y.
C7_DotsDifferIffImWeightedSumNonzero ==
  dpc = "done" =>
    LET w == ImWeightedSum(dx, dy, Len(dx))
    IN /\ CSub(dres.zdotc, dres.zdotu) = CMul(C(0, -2), w)
       /\ dres.zdotc # dres.zdotu <=> w # C(0, 0)
       /\ ~HasImaginaryPart(dx) => dres.zdotc = dres.zdotu

\* C7 witness: an operand x with an imaginary part whose two dot products differ.
C7_Witness ==
  dpc = "done" /\ HasImaginaryPart(dx) /\ dres.zdotc # dres.zdotu

----------------------------------------------------------------------------
(* Properties of the generator *)

FNeg(f) == <<-f[1], f[2]>>
FHalf(f) == Frac(f[1], 2 * f[2])
ZeroDict == [real |-> <<0, 1>>, imag |-> <<0, 1>>]
FromDict(d) ==
  QNorm(d.real[1] * d.imag[2], d.imag[1] * d.real[2], d.real[2] * d.imag[2])
VectorOf(list) == [i \in 1..Len(list) |-> FromDict(list[i])]
MatrixOf(list) == [i \in 1..Len(list) |-> VectorOf(list[i])]

\* The test cases of a level emitted so far in this run.
Emitted(level) ==
  IF level \in DOMAIN test_data THEN test_data[level]
  ELSE IF gpc = level \/ (gpc = "error" /\ level = "level2") THEN glist
  ELSE <<>>

CasesOf(level) == {Emitted(level)[i] : i \in 1..Len(Emitted(level))}

\* Every Hermitian fixture emitted so far, with the base matrix of its case.
HermitianFixtures ==
       {[H |-> c.H, base |-> c.A] : c \in {d \in CasesOf("level2") : "H" \in DOMAIN d}}
  \cup {[H |-> c.H, base |-> c.A] : c \in {d \in CasesOf("level3") : "H" \in DOMAIN d}}
  \cup {[H |-> c.C_herm, base |-> c.C] :
          c \in {d \in CasesOf("level3") : "C_herm" \in DOMAIN d}}

\* C6: two generation runs produce identical fixtures, and in each run the
\* pseudo-random source is seeded exactly once, before the first draw, and
\* never again in or between the three generate_level methods.
C6_RunsProduceIdenticalFixtures ==
  /\ \A r1, r2 \in 1..Len(runs) :
       runs[r1].saved = runs[r2].saved /\ runs[r1].file = runs[r2].file
  /\ gpc = "start" => (seeds = 0 /\ draws = 0)
  /\ gpc \in {"level1", "level2", "level3", "save", "example", "done", "error"} =>
       seeds = 1

\* C6 witness: two runs that began with different states of the
\* pseudo-random source and both saved a fixture file.
C6_Witness ==
  /\ Len(runs) >= 2
  /\ runs[1].saved /\ runs[2].saved
  /\ runs[1].entropy # runs[2].entropy
  /\ draws > 0

\* C8: every Hermitian fixture emitted is (A + conjugate-transpose(A)) / 2
\* of its base matrix A and equals its own conjugate transpose: entry (i,j)
\* is the conjugate of entry (j,i), every diagonal entry has imaginary part 0.
C8_HermitianFixtures ==
  \A f \in HermitianFixtures :
    \A i, j \in 1..Len(f.H) :
      /\ f.H[i][j].real = FHalf(FAdd(f.base[i][j].real, f.base[j][i].real))
      /\ f.H[i][j].imag = FHalf(FAdd(f.base[i][j].imag, FNeg(f.base[j][i].imag)))
      /\ f.H[i][j].real = f.H[j][i].real
      /\ f.H[i][j].imag = FNeg(f.H[j][i].imag)
      /\ f.H[i][i].imag = <<0, 1>>

\* C8 witness: the three kinds of Hermitian fixture have been emitted, one
\* from a base matrix that is not Hermitian itself.
C8_Witness ==
  /\ gpc = "save"
  /\ \E c \in CasesOf("level2") : "H" \in DOMAIN c /\ "name" \in DOMAIN c
  /\ \E c \in CasesOf("level3") : "C_herm" \in DOMAIN c
  /\ \E f \in HermitianFixtures : f.H # f.base

\* C9: every upper-triangular fixture U emitted is the upper-triangular
\* extraction of its case's base matrix A: zero below the diagonal, the
\* entry of A on and above it.
C9_UpperTriangularFixtures ==
  \A c \in CasesOf("level2") :
    "U" \in DOMAIN c =>
      /\ Len(c.U) = Len(c.A)
      /\ \A i, j \in 1..Len(c.U) :
           c.U[i][j] = IF i > j THEN ZeroDict ELSE c.A[i][j]

\* C9 witness: a U emitted for a base matrix with a non-zero entry below its
\* diagonal.
C9_Witness ==
  \E c \in CasesOf("level2") :
    /\ "U" \in DOMAIN c
    /\ \E i, j \in 1..Len(c.A) : i > j /\ c.A[i][j] # ZeroDict

\* C10: the triangular solve never gives a result from a U with a zero on
\* its diagonal: every stored "ztrsv" result x belongs to a U whose diagonal
\* entries are all non-zero and satisfies U x = b for the stored U and b,
\* and a run that failed in the solve failed on a U with a zero diagonal
\* entry and stored no case for it.
C10_TriangularSolve ==
  /\ \A c \in CasesOf("level2") :
       "ztrsv" \in DOMAIN c.results =>
         /\ \A i \in 1..Len(c.U) : c.U[i][i] # ZeroDict
         /\ MatVec(MatrixOf(c.U), VectorOf(c.results.ztrsv)) = VectorOf(c.b)
  /\ gpc = "error" =>
       /\ gerr.kind = "LinAlgError"
       /\ \E i \in 1..Len(gerr.U) : IsZero(gerr.U[i][i])
       /\ Len(Emitted("level2")) = gi - 1
       /\ "level2" \notin DOMAIN test_data
       /\ ~runs[Len(runs)].saved

\* C10 witness: a run that failed in the solve after storing the result of
\* an earlier solve.
C10_Witness ==
  /\ gpc = "error"
  /\ \E c \in CasesOf("level2") : "ztrsv" \in DOMAIN c.results

----------------------------------------------------------------------------
(* Properties of the Level 2 scenario *)

\* C11: validate_level2_operations compares no computed value with an
\* expected one and returns Passed whatever its zgemv and zhemv computations
\* give: no test block is printed for it, its result is never Failed, every
\* summary printed shows it Passed, and a run that ends by sys.exit ends 0
\* exactly when the four other scenarios Passed.
C11_Level2AlwaysPassed ==
  /\ results["level2"] \in {"NotRun", "Passed"}
  /\ TestLines("level2") = {}
  /\ \A i \in 1..Len(printed) :
       printed[i].kind = "results" => printed[i].data["level2"] = "Passed"
  /\ (pc = "exited" /\ raised = "none") =>
       (exitcode = 0 <=> \A s \in ScenarioSet \ {"level2"} : results[s] = "Passed")

\* C11 witness: a run whose Level 2 inputs, and so its zgemv or zhemv
\* values, are not the usual ones, and which still printed Level 2 as Passed
\* and ended with exit status 0.
C11_Witness ==
  /\ pc = "exited" /\ exitcode = 0
  /\ tables["level2"] # level2_cases
  /\ \E i \in 1..Len(printed) :
       printed[i].kind = "results" /\ printed[i].data["level2"] = "Passed"

====
